---- MODULE Spec2Model ----
(***************************************************************************)
(* Model of src/backend/routers/announcements.py: the announcement         *)
(* endpoints (list active, list all, create, update, delete) over the      *)
(* announcements collection, with the request schema AnnouncementUpsert,   *)
(* the ISO date parser and the teacher check.                              *)
(*                                                                         *)
(* Text values are modelled by what the code does with them:               *)
(*  - a message is a sequence of characters, so that str.strip() and the   *)
(*    schema's length limits are computed, not assumed;                    *)
(*  - a date string is a record [form, wall, off]: the form of the text    *)
(*    ("naive": no offset, "Z": the UTC designator, "offset": an explicit  *)
(*    +hh:00 offset, "bad": not ISO, "none": Python's None), the wall      *)
(*    clock reading it spells and the offset it spells.  Two date strings  *)
(*    are equal as strings iff the records are equal; they denote the same *)
(*    instant iff wall - off agree.                                        *)
(***************************************************************************)
EXTENDS Integers, Sequences, FiniteSets

VARIABLES store, clock, nextId, resp, listing, creating, updating, req

vars == <<store, clock, nextId, resp, listing, creating, updating, req>>

-----------------------------------------------------------------------------
(* Bounds of the model *)

\* how many announcements are ever created (uuid4 values handed out)
MaxAnnouncements == 2
\* wall clock readings 0..MaxTime, in date strings and on the server's clock
MaxTime == 1

\* list-active requests, and update requests, between their steps at one
\* time (creates: as many as MaxAnnouncements allows)
MaxInFlight == 1

(* Program constants *)
MinLength == 1
MaxLength == 500

-----------------------------------------------------------------------------
(* Input domains *)

Times == 0..MaxTime
\* the one non-zero UTC offset used in date strings, "-01:00": the instant is
\* one unit later than the wall clock reading
Offsets == {-1}

None == [form |-> "none", wall |-> 0, off |-> 0]
BadDate == [form |-> "bad", wall |-> 0, off |-> 0]
Naive(t) == [form |-> "naive", wall |-> t, off |-> 0]
Zulu(t) == [form |-> "Z", wall |-> t, off |-> 0]
WithOffset(t, o) == [form |-> "offset", wall |-> t, off |-> o]

DateStrings ==
    {BadDate} \cup {Naive(t) : t \in Times} \cup {Zulu(t) : t \in Times}
              \cup {WithOffset(t, o) : t \in Times, o \in Offsets}

Chars == {" ", "a"}
Whitespace == {" "}
ShortMessages == {<<>>} \cup {<<c>> : c \in Chars}
                        \cup {<<c, d>> : c \in Chars, d \in Chars}
\* one character more than the schema allows
LongMessage == [i \in 1..(MaxLength + 1) |-> "a"]
Messages == ShortMessages \cup {LongMessage}

Payloads == [message : Messages,
             expiration_date : DateStrings \cup {None},
             start_date : DateStrings \cup {None}]

\* teachers_collection holds one teacher; "intruder" is not in it
teachers_collection == {"teacher1"}
Usernames == {"teacher1", "intruder"}

AnnouncementIds == 1..MaxAnnouncements

-----------------------------------------------------------------------------
(* Responses.  body is the list of normalized records the call returns: the *)
(* whole list for the two list calls, the one record for create and update, *)
(* empty for delete and for every error.                                    *)

Response(op, status, detail, body) ==
    [op |-> op, status |-> status, detail |-> detail, body |-> body]

NoResponse == Response("none", 0, "", <<>>)

\* raise HTTPException(status_code, detail), as the caller sees it
HTTPException(op, status_code, detail) == Response(op, status_code, detail, <<>>)

\* FastAPI's answer to a body that does not fit the schema
RequestValidationError(op) == Response(op, 422, "Unprocessable Entity", <<>>)

\* an exception that is no HTTPException
InternalServerError(op) == Response(op, 500, "Internal Server Error", <<>>)

-----------------------------------------------------------------------------
(* class AnnouncementUpsert: message is a str of 1..500 characters,         *)
(* expiration_date a str, start_date a str or None.                         *)

AnnouncementUpsert(payload) ==
    /\ Len(payload.message) >= MinLength
    /\ Len(payload.message) <= MaxLength
    /\ payload.expiration_date # None

-----------------------------------------------------------------------------
(* Datetimes.  A parsed value is None or an aware datetime [wall, off].     *)

NoDatetime == [isNone |-> TRUE, wall |-> 0, off |-> 0]
Datetime(wall, off) == [isNone |-> FALSE, wall |-> wall, off |-> off]

\* aware datetimes compare by the instant they denote
Instant(dt) == dt.wall - dt.off

\* datetime.isoformat() of an aware datetime: wall clock reading and offset
isoformat(dt) == WithOffset(dt.wall, dt.off)

\* the detail strings of _parse_iso_date
RequiredDetail(field_name) ==
    IF field_name = "start_date" THEN "start_date is required"
    ELSE "expiration_date is required"

InvalidDetail(field_name) ==
    IF field_name = "start_date" THEN "start_date must be a valid ISO date"
    ELSE "expiration_date must be a valid ISO date"

\* _parse_iso_date: [ok, value] or [~ok, status, detail]
_parse_iso_date(value, field_name, required) ==
    IF value = None
    THEN IF required
         THEN [ok |-> FALSE, value |-> NoDatetime, status |-> 400,
               detail |-> RequiredDetail(field_name)]
         ELSE [ok |-> TRUE, value |-> NoDatetime, status |-> 0, detail |-> ""]
    ELSE IF value.form = "bad"
         THEN [ok |-> FALSE, value |-> NoDatetime, status |-> 400,
               detail |-> InvalidDetail(field_name)]
         ELSE [ok |-> TRUE,
               \* "Z" is replaced by "+00:00"; a naive value gets tzinfo UTC
               value |-> Datetime(value.wall,
                                  IF value.form = "offset" THEN value.off ELSE 0),
               status |-> 0, detail |-> ""]

-----------------------------------------------------------------------------
(* str.strip() *)

RECURSIVE lstrip(_)
lstrip(s) ==
    IF s # <<>> /\ Head(s) \in Whitespace THEN lstrip(Tail(s)) ELSE s

RECURSIVE rstrip(_)
rstrip(s) ==
    IF s # <<>> /\ s[Len(s)] \in Whitespace
    THEN rstrip(SubSeq(s, 1, Len(s) - 1))
    ELSE s

strip(s) == rstrip(lstrip(s))

-----------------------------------------------------------------------------
(* The announcements collection: a sequence of documents in insertion order *)

\* index of the first document with this _id, 0 when there is none
IndexOf(st, id) ==
    IF \E i \in 1..Len(st) : st[i]._id = id
    THEN CHOOSE i \in 1..Len(st) :
            /\ st[i]._id = id
            /\ \A j \in 1..(i - 1) : st[j]._id # id
    ELSE 0

\* find_one({"_id": id}): the documents found, as a list of at most one
find_one(st, id) ==
    IF IndexOf(st, id) = 0 THEN <<>> ELSE <<st[IndexOf(st, id)]>>

\* insert_one whose write is lost
insert_one_Lost(st, doc) == st

insert_one(st, doc) == Append(st, doc)

\* update_one with an empty filter: every document is set
update_one_NoFilter(st, id, updates) ==
    [i \in DOMAIN st |->
        [st[i] EXCEPT !.message = updates.message,
                      !.start_date = updates.start_date,
                      !.expiration_date = updates.expiration_date]]

\* update_one({"_id": id}, {"$set": updates}): no upsert
update_one(st, id, updates) ==
    IF IndexOf(st, id) = 0 THEN st
    ELSE [st EXCEPT ![IndexOf(st, id)] =
            [@ EXCEPT !.message = updates.message,
                      !.start_date = updates.start_date,
                      !.expiration_date = updates.expiration_date]]

\* delete_one that reports a deletion when nothing matched
delete_one_CountsMiss(st, id) ==
    IF IndexOf(st, id) = 0
    THEN [store |-> st, deleted_count |-> 1]
    ELSE [store |-> SubSeq(st, 1, IndexOf(st, id) - 1)
                      \o SubSeq(st, IndexOf(st, id) + 1, Len(st)),
          deleted_count |-> 1]

\* delete_one({"_id": id}): the collection left, and deleted_count
delete_one(st, id) ==
    IF IndexOf(st, id) = 0
    THEN [store |-> st, deleted_count |-> 0]
    ELSE [store |-> SubSeq(st, 1, IndexOf(st, id) - 1)
                      \o SubSeq(st, IndexOf(st, id) + 1, Len(st)),
          deleted_count |-> 1]

\* find().sort("created_at", -1): descending by created_at, stable.  Every
\* created_at is an isoformat() string in UTC, ordered as its wall clock.
RECURSIVE InsertDesc(_, _)
InsertDesc(sorted, doc) ==
    IF sorted = <<>> THEN <<doc>>
    ELSE IF Head(sorted).created_at.wall >= doc.created_at.wall
         THEN <<Head(sorted)>> \o InsertDesc(Tail(sorted), doc)
         ELSE <<doc>> \o sorted

RECURSIVE SortByCreatedDesc(_)
SortByCreatedDesc(st) ==
    IF st = <<>> THEN <<>>
    ELSE InsertDesc(SortByCreatedDesc(SubSeq(st, 1, Len(st) - 1)), st[Len(st)])

-----------------------------------------------------------------------------
_serialize(doc) ==
    [id |-> doc._id,
     message |-> doc.message,
     start_date |-> doc.start_date,
     expiration_date |-> doc.expiration_date,
     created_at |-> doc.created_at]

RECURSIVE SerializeAll(_)
SerializeAll(docs) ==
    IF docs = <<>> THEN <<>>
    ELSE <<_serialize(Head(docs))>> \o SerializeAll(Tail(docs))

\* _validate_teacher passes iff the username is a key of teachers_collection
_validate_teacher(teacher_username) == teacher_username \in teachers_collection

-----------------------------------------------------------------------------
(* The endpoints.  Each is an operator from the collection and the call's   *)
(* inputs to the collection left and the response: [store, resp].           *)

Result(st, response) == [store |-> st, resp |-> response]

\* IsActive with the expiry test written <=: a record expiring now is dropped
IsActive_StrictExpiry(start_date, expiration_date, now) ==
    /\ ~(Instant(expiration_date) <= Instant(now))
    /\ ~(~start_date.isNone /\ Instant(start_date) > Instant(now))

\* the test of the loop body of get_active_announcements, on parsed dates
IsActive(start_date, expiration_date, now) ==
    /\ ~(Instant(expiration_date) < Instant(now))
    /\ ~(~start_date.isNone /\ Instant(start_date) > Instant(now))

\* the loop of get_active_announcements over the sorted documents: the list
\* built so far, or the HTTPException of the first document that fails to parse
RECURSIVE ActiveLoop(_, _, _)
ActiveLoop(docs, now, active) ==
    IF docs = <<>> THEN [ok |-> TRUE, active |-> active, status |-> 0, detail |-> ""]
    ELSE LET doc == Head(docs)
             start_date == _parse_iso_date(doc.start_date, "start_date", FALSE)
             expiration_date ==
                 _parse_iso_date(doc.expiration_date, "expiration_date", TRUE)
         IN  IF ~start_date.ok
             THEN [ok |-> FALSE, active |-> <<>>, status |-> start_date.status,
                   detail |-> start_date.detail]
             ELSE IF ~expiration_date.ok
             THEN [ok |-> FALSE, active |-> <<>>, status |-> expiration_date.status,
                   detail |-> expiration_date.detail]
             ELSE IF IsActive(start_date.value, expiration_date.value, now)
             THEN ActiveLoop(Tail(docs), now, Append(active, _serialize(doc)))
             ELSE ActiveLoop(Tail(docs), now, active)

\* GET /announcements; now is datetime.now(timezone.utc)
get_active_announcements(st, now) ==
    LET loop == ActiveLoop(SortByCreatedDesc(st), now, <<>>)
    IN  IF loop.ok
        THEN Result(st, Response("list_active", 200, "", loop.active))
        ELSE Result(st, HTTPException("list_active", loop.status, loop.detail))

\* GET /announcements/manage
get_all_announcements(st, teacher_username) ==
    IF ~_validate_teacher(teacher_username)
    THEN Result(st, HTTPException("list_all", 401, "Invalid teacher credentials"))
    ELSE Result(st, Response("list_all", 200, "",
                             SerializeAll(SortByCreatedDesc(st))))

\* RangeRejected with the test written >: equal dates are let through
RangeRejected_AllowEqual(start_date, expiration_date) ==
    ~start_date.isNone /\ Instant(start_date) > Instant(expiration_date)

\* the cross-field test of create and update, on parsed dates
RangeRejected(start_date, expiration_date) ==
    ~start_date.isNone /\ Instant(start_date) >= Instant(expiration_date)

\* create_announcement up to its store call: the teacher check, the checks of
\* the payload and the document built, with uuid = str(uuid4()) and
\* now = datetime.now(timezone.utc) as read at that point.  [ok, doc], or
\* [~ok, resp] with the error raised
CreateChecks(now, uuid, payload, teacher_username) ==
    LET start_date == _parse_iso_date(payload.start_date, "start_date", FALSE)
        expiration_date ==
            _parse_iso_date(payload.expiration_date, "expiration_date", TRUE)
        message == strip(payload.message)
        doc == [_id |-> uuid,
                message |-> message,
                start_date |-> IF start_date.value.isNone THEN None
                               ELSE isoformat(start_date.value),
                expiration_date |-> isoformat(expiration_date.value),
                created_at |-> isoformat(now)]
        Raise(response) == [ok |-> FALSE, resp |-> response, doc |-> doc]
    IN  IF ~AnnouncementUpsert(payload)
        THEN Raise(RequestValidationError("create"))
        ELSE IF ~_validate_teacher(teacher_username)
        THEN Raise(HTTPException("create", 401, "Invalid teacher credentials"))
        ELSE IF ~start_date.ok
        THEN Raise(HTTPException("create", start_date.status, start_date.detail))
        ELSE IF ~expiration_date.ok
        THEN Raise(HTTPException("create", expiration_date.status,
                                 expiration_date.detail))
        ELSE IF RangeRejected(start_date.value, expiration_date.value)
        THEN Raise(HTTPException("create", 400,
                                 "start_date must be before expiration_date"))
        ELSE IF message = <<>>
        THEN Raise(HTTPException("create", 400,
                   "message must not be empty or contain only whitespace"))
        ELSE [ok |-> TRUE, resp |-> NoResponse, doc |-> doc]

\* the end of create_announcement: insert_one, and the return of the document
CreateReturn(st, doc) ==
    Result(insert_one(st, doc), Response("create", 200, "", <<_serialize(doc)>>))

\* the $set document of update_announcement, from the validated payload
Updates(message, start_date, expiration_date) ==
    [message |-> message,
     start_date |-> IF start_date.isNone THEN None ELSE isoformat(start_date),
     expiration_date |-> isoformat(expiration_date)]

\* update_announcement up to its first write: the teacher check, the lookup of
\* the existing document and the validation of the payload.  [ok, updates],
\* or [~ok, resp] with the error raised
UpdateChecks(st, announcement_id, payload, teacher_username) ==
    LET existing == find_one(st, announcement_id)
        start_date == _parse_iso_date(payload.start_date, "start_date", FALSE)
        expiration_date ==
            _parse_iso_date(payload.expiration_date, "expiration_date", TRUE)
        message == strip(payload.message)
        Raise(response) == [ok |-> FALSE, resp |-> response,
                            updates |-> Updates(<<>>, NoDatetime, NoDatetime)]
    IN  IF ~AnnouncementUpsert(payload)
        THEN Raise(RequestValidationError("update"))
        ELSE IF ~_validate_teacher(teacher_username)
        THEN Raise(HTTPException("update", 401, "Invalid teacher credentials"))
        ELSE IF existing = <<>>
        THEN Raise(HTTPException("update", 404, "Announcement not found"))
        ELSE IF ~start_date.ok
        THEN Raise(HTTPException("update", start_date.status, start_date.detail))
        ELSE IF ~expiration_date.ok
        THEN Raise(HTTPException("update", expiration_date.status,
                                 expiration_date.detail))
        ELSE IF RangeRejected(start_date.value, expiration_date.value)
        THEN Raise(HTTPException("update", 400,
                                 "start_date must be before expiration_date"))
        ELSE IF message = <<>>
        THEN Raise(HTTPException("update", 400,
                   "message must not be empty or contain only whitespace"))
        ELSE [ok |-> TRUE, resp |-> NoResponse,
              updates |-> Updates(message, start_date.value, expiration_date.value)]

\* the end of update_announcement: the second find_one and _serialize of what
\* it found; _serialize(None) is a TypeError
UpdateReturn(st, announcement_id) ==
    LET updated == find_one(st, announcement_id)
    IN  IF updated = <<>>
        THEN InternalServerError("update")
        ELSE Response("update", 200, "", <<_serialize(updated[1])>>)

\* delete_announcement with delete_one called before the teacher check
delete_announcement_DeleteFirst(st, announcement_id, teacher_username) ==
    LET result == delete_one(st, announcement_id)
    IN  IF ~_validate_teacher(teacher_username)
        THEN Result(result.store,
                    HTTPException("delete", 401, "Invalid teacher credentials"))
        ELSE IF result.deleted_count = 0
        THEN Result(result.store, HTTPException("delete", 404, "Announcement not found"))
        ELSE Result(result.store, Response("delete", 200, "Announcement deleted", <<>>))

\* DELETE /announcements/{announcement_id}
delete_announcement(st, announcement_id, teacher_username) ==
    LET result == delete_one(st, announcement_id)
    IN  IF ~_validate_teacher(teacher_username)
        THEN Result(st, HTTPException("delete", 401, "Invalid teacher credentials"))
        ELSE IF result.deleted_count = 0
        THEN Result(result.store, HTTPException("delete", 404, "Announcement not found"))
        ELSE Result(result.store, Response("delete", 200, "Announcement deleted", <<>>))

-----------------------------------------------------------------------------
(* The service.  The handlers are plain functions, which FastAPI runs on    *)
(* worker threads: every call on the collection is atomic, and while one    *)
(* request waits for the collection the clock moves and the calls of other  *)
(* requests run.  A handler is one step up to each of its calls on the      *)
(* collection:                                                              *)
(*  - list-active reads the clock, then runs its query (the cursor is       *)
(*    lazy; the query runs when the loop starts);                           *)
(*  - create builds its document, reading the clock, then calls insert_one; *)
(*  - update calls find_one, update_one and find_one;                       *)
(*  - list-all and delete make one call on the collection and read nothing  *)
(*    else that changes (the credential store is never written).            *)
(* listing, creating and updating hold the requests that are between their  *)
(* steps.  clock is the server's UTC clock; nextId stands for uuid4(),      *)
(* which never repeats a value.  resp is the response sent last, until its  *)
(* caller takes it.  req is used by SpecCalls only.                         *)

NoPayload == [message |-> <<>>, expiration_date |-> None, start_date |-> None]

NoRequest == [op |-> "none", teacher_username |-> "", announcement_id |-> 0,
              payload |-> NoPayload, before |-> <<>>]

Init ==
    /\ store = <<>>
    /\ clock = 0
    /\ nextId = 1
    /\ resp = NoResponse
    /\ listing = <<>>
    /\ creating = <<>>
    /\ updating = <<>>
    /\ req = NoRequest

Apply(result) ==
    /\ store' = result.store
    /\ resp' = result.resp

\* seq without its i-th element
Without(seq, i) == SubSeq(seq, 1, i - 1) \o SubSeq(seq, i + 1, Len(seq))

Tick ==
    /\ resp = NoResponse
    /\ clock < MaxTime
    /\ clock' = clock + 1
    /\ UNCHANGED <<store, nextId, resp, listing, creating, updating, req>>

\* get_active_announcements: now = datetime.now(timezone.utc)
GetActiveNow ==
    /\ resp = NoResponse
    /\ Len(listing) < MaxInFlight
    /\ listing' = Append(listing, Datetime(clock, 0))
    /\ UNCHANGED <<store, clock, nextId, resp, creating, updating, req>>

\* get_active_announcements: the query, the loop over its documents with the
\* now read before, and the return
GetActiveFind ==
    /\ resp = NoResponse
    /\ \E i \in 1..Len(listing) :
          /\ Apply(get_active_announcements(store, listing[i]))
          /\ listing' = Without(listing, i)
    /\ UNCHANGED <<clock, nextId, creating, updating, req>>

GetAll ==
    /\ resp = NoResponse
    /\ \E t \in Usernames : Apply(get_all_announcements(store, t))
    /\ UNCHANGED <<clock, nextId, listing, creating, updating, req>>

\* create_announcement, what it does after its checks: it raises, or has its
\* document, with the uuid4 value taken, and goes on to insert_one
StartCreate(checks) ==
    /\ resp' = checks.resp
    /\ creating' = IF checks.ok THEN Append(creating, checks.doc) ELSE creating
    /\ nextId' = IF checks.ok THEN nextId + 1 ELSE nextId

\* create_announcement: _validate_teacher, the checks of the payload, the
\* document with created_at = datetime.now(timezone.utc)
CreateDoc ==
    /\ resp = NoResponse
    /\ nextId <= MaxAnnouncements
    /\ \E t \in Usernames, p \in Payloads :
          StartCreate(CreateChecks(Datetime(clock, 0), nextId, p, t))
    /\ UNCHANGED <<store, clock, listing, updating, req>>

\* create_announcement: insert_one, and the return
CreateInsertOne ==
    /\ resp = NoResponse
    /\ \E i \in 1..Len(creating) :
          /\ Apply(CreateReturn(store, creating[i]))
          /\ creating' = Without(creating, i)
    /\ UNCHANGED <<clock, nextId, listing, updating, req>>

\* an update between its store calls: the call it makes next, and its locals
Updating(pc, announcement_id, updates) ==
    [pc |-> pc, announcement_id |-> announcement_id, updates |-> updates]

\* update_announcement, what it does after its first find_one: it raises, or
\* goes on to update_one
StartUpdate(checks, announcement_id) ==
    /\ resp' = checks.resp
    /\ updating' = IF checks.ok
                   THEN Append(updating, Updating("update_one", announcement_id,
                                                  checks.updates))
                   ELSE updating

\* update_announcement: _validate_teacher, find_one, the checks of the payload
UpdateFindOne ==
    /\ resp = NoResponse
    /\ Len(updating) < MaxInFlight
    /\ \E t \in Usernames, id \in AnnouncementIds, p \in Payloads :
          StartUpdate(UpdateChecks(store, id, p, t), id)
    /\ UNCHANGED <<store, clock, nextId, listing, creating, req>>

\* update_announcement: update_one
UpdateUpdateOne ==
    /\ resp = NoResponse
    /\ \E i \in 1..Len(updating) :
          /\ updating[i].pc = "update_one"
          /\ store' = update_one(store, updating[i].announcement_id,
                                 updating[i].updates)
          /\ updating' = [updating EXCEPT ![i].pc = "find_updated"]
    /\ UNCHANGED <<clock, nextId, resp, listing, creating, req>>

\* update_announcement: the second find_one, and the return
UpdateFindUpdated ==
    /\ resp = NoResponse
    /\ \E i \in 1..Len(updating) :
          /\ updating[i].pc = "find_updated"
          /\ resp' = UpdateReturn(store, updating[i].announcement_id)
          /\ updating' = Without(updating, i)
    /\ UNCHANGED <<store, clock, nextId, listing, creating, req>>

Delete ==
    /\ resp = NoResponse
    /\ \E t \in Usernames, id \in AnnouncementIds :
          Apply(delete_announcement(store, id, t))
    /\ UNCHANGED <<clock, nextId, listing, creating, updating, req>>

\* the caller takes the response
Return ==
    /\ resp # NoResponse
    /\ resp' = NoResponse
    /\ UNCHANGED <<store, clock, nextId, listing, creating, updating, req>>

Next ==
    \/ Tick \/ GetAll \/ Delete \/ Return
    \/ GetActiveNow \/ GetActiveFind
    \/ CreateDoc \/ CreateInsertOne
    \/ UpdateFindOne \/ UpdateUpdateOne \/ UpdateFindUpdated

Spec == Init /\ [][Next]_vars

-----------------------------------------------------------------------------
(* One call with its request kept: req records the endpoint called, its     *)
(* arguments and the collection before the call.  The collection starts     *)
(* empty or as one successful create left it, at any time of the clock.     *)

\* the payloads a create accepts
ValidPayloads ==
    {p \in Payloads : CreateChecks(Datetime(0, 0), 1, p, "teacher1").ok}

Request(op, teacher_username, announcement_id, payload, before) ==
    [op |-> op, teacher_username |-> teacher_username,
     announcement_id |-> announcement_id, payload |-> payload, before |-> before]

CallInit ==
    /\ \/ store = <<>> /\ nextId = 1
       \/ /\ \E p \in ValidPayloads :
                store = CreateReturn(<<>>,
                            CreateChecks(Datetime(0, 0), 1, p, "teacher1").doc).store
          /\ nextId = 2
    /\ clock \in Times
    /\ resp = NoResponse
    /\ listing = <<>>
    /\ creating = <<>>
    /\ updating = <<>>
    /\ req = NoRequest

CallGetAll ==
    /\ req = NoRequest
    /\ \E t \in Usernames :
          /\ Apply(get_all_announcements(store, t))
          /\ req' = Request("list_all", t, 0, NoPayload, store)
    /\ UNCHANGED <<clock, nextId, listing, creating, updating>>

\* create_announcement up to its document; CreateInsertOne is its other step
CallCreate ==
    /\ req = NoRequest
    /\ \E t \in Usernames, p \in Payloads :
          /\ StartCreate(CreateChecks(Datetime(clock, 0), nextId, p, t))
          /\ req' = Request("create", t, 0, p, store)
    /\ UNCHANGED <<store, clock, listing, updating>>

\* update_announcement up to its first find_one; UpdateUpdateOne and
\* UpdateFindUpdated are its other two steps
CallUpdate ==
    /\ req = NoRequest
    /\ \E t \in Usernames, id \in AnnouncementIds, p \in Payloads :
          /\ StartUpdate(UpdateChecks(store, id, p, t), id)
          /\ req' = Request("update", t, id, p, store)
    /\ UNCHANGED <<store, clock, nextId, listing, creating>>

CallDelete ==
    /\ req = NoRequest
    /\ \E t \in Usernames, id \in AnnouncementIds :
          /\ Apply(delete_announcement(store, id, t))
          /\ req' = Request("delete", t, id, NoPayload, store)
    /\ UNCHANGED <<clock, nextId, listing, creating, updating>>

CallNext ==
    \/ CallGetAll \/ CallCreate \/ CallUpdate \/ CallDelete
    \/ CreateInsertOne \/ UpdateUpdateOne \/ UpdateFindUpdated

SpecCalls == CallInit /\ [][CallNext]_vars

-----------------------------------------------------------------------------
(* Vocabulary of the properties *)

\* the instant a parseable date string denotes
DateInstant(s) == s.wall - s.off

Parseable(s) == s # None /\ s # BadDate

\* empty, or nothing but whitespace
Blank(message) == \A i \in 1..Len(message) : message[i] \in Whitespace

Idle == resp = NoResponse

InvalidRange(op) ==
    HTTPException(op, 400, "start_date must be before expiration_date")
EmptyMessage(op) ==
    HTTPException(op, 400, "message must not be empty or contain only whitespace")
Unauthorized(op) == HTTPException(op, 401, "Invalid teacher credentials")
NotFound(op) == HTTPException(op, 404, "Announcement not found")

\* a stored document is inside the active window at instant now
InWindow(doc, now) ==
    /\ DateInstant(doc.expiration_date) >= now
    /\ doc.start_date = None \/ DateInstant(doc.start_date) <= now

Positions(seq, Test(_)) == {i \in 1..Len(seq) : Test(seq[i])}

-----------------------------------------------------------------------------
\* the step taken is the query and return of the i-th list-active in flight
ReturnsListing(i) ==
    /\ Idle
    /\ listing' = Without(listing, i)
    /\ resp'.op = "list_active"

\* C1: list-active, whatever the collection it reads and the instant now it
\* read, returns exactly the stored records with expiration_date >= now and
\* (start_date absent or start_date <= now), each once: none outside the
\* window, none inside it omitted, the bounds included.
C1_ActiveIsExactlyTheWindow ==
    [][\A i \in 1..Len(listing) :
         ReturnsListing(i) =>
            /\ resp'.status = 200
            /\ store' = store
            /\ {resp'.body[n] : n \in 1..Len(resp'.body)}
                 = {_serialize(store[n]) :
                      n \in Positions(store,
                                      LAMBDA d : InWindow(d, Instant(listing[i])))}
            /\ Len(resp'.body)
                 = Cardinality(Positions(store,
                                  LAMBDA d : InWindow(d, Instant(listing[i]))))]_vars

\* a listing that keeps a record expiring now and one starting now, and
\* drops a record that has not started
C1_Witness ==
    /\ resp.op = "list_active"
    /\ Len(store) = 2
    /\ \E i, j \in 1..Len(store) :
          /\ DateInstant(store[i].expiration_date) = clock
          /\ _serialize(store[i]) \in {resp.body[k] : k \in 1..Len(resp.body)}
          /\ store[j].start_date # None
          /\ DateInstant(store[j].start_date) > clock
          /\ Len(resp.body) = 1

\* C2: a create, update or delete that ends in one of the errors of the
\* interface (422 or 400 for a field, a date, the range or the message, 401,
\* 404) has made no write: the step that raises leaves the collection as it
\* is, and the call made no store call before it (it is not one of the
\* creates or updates that were on their way to a store call).
C2_ErrorLeavesStore ==
    [][(/\ Idle
        /\ resp'.op \in {"create", "update", "delete"}
        /\ resp'.status \in {400, 401, 404, 422})
          => /\ store' = store
             /\ creating' = creating
             /\ updating' = updating]_vars

\* an update refused by its last check, the message test, with two records
\* stored
C2_Witness ==
    /\ resp = EmptyMessage("update")
    /\ Len(store) = 2

\* C3: from the empty collection, every stored record has a parseable
\* expiration_date, a message that is not blank and, if it has a start_date,
\* start_date strictly before expiration_date; stored ids are pairwise distinct.
C3_StoredRecordsValid ==
    /\ \A i \in 1..Len(store) :
          /\ _parse_iso_date(store[i].expiration_date, "expiration_date", TRUE).ok
          /\ ~Blank(store[i].message)
          /\ store[i].start_date # None =>
                /\ Parseable(store[i].start_date)
                /\ DateInstant(store[i].start_date)
                     < DateInstant(store[i].expiration_date)
    /\ \A i, j \in 1..Len(store) : i # j => store[i]._id # store[j]._id

\* two records stored, one with a start_date one unit before its expiry, after
\* an update went through
C3_Witness ==
    /\ Len(store) = 2
    /\ resp.op = "update" /\ resp.status = 200
    /\ \E i \in 1..Len(store) :
          /\ store[i].start_date # None
          /\ DateInstant(store[i].start_date) + 1 = DateInstant(store[i].expiration_date)

\* the step taken is update_one of the i-th update in flight
WritesUpdate(i) ==
    /\ updating[i].pc = "update_one"
    /\ updating' = [updating EXCEPT ![i].pc = "find_updated"]

\* the step taken is the return of the i-th update in flight
ReturnsUpdate(i) ==
    /\ updating[i].pc = "find_updated"
    /\ updating' = Without(updating, i)
    /\ resp'.op = "update"

\* C4: an update of an existing id sets message, start_date and
\* expiration_date of that record and nothing else: its id and created_at
\* stay, every other record is as it was, a fetch that follows the write shows
\* the new message once, and the update that succeeds returns the record as
\* stored.
C4_UpdateFrame ==
    [][\A i \in 1..Len(updating) :
         LET u == updating[i]
             k == IndexOf(store, u.announcement_id)
             fetch == get_all_announcements(store', "teacher1").resp.body
         IN  /\ (WritesUpdate(i) /\ k > 0) =>
                   /\ Len(store') = Len(store)
                   /\ \A j \in 1..Len(store) : j # k => store'[j] = store[j]
                   /\ store'[k]._id = u.announcement_id
                   /\ store'[k].created_at = store[k].created_at
                   /\ store'[k] = [store[k] EXCEPT
                                     !.message = u.updates.message,
                                     !.start_date = u.updates.start_date,
                                     !.expiration_date = u.updates.expiration_date]
                   /\ \A n \in 1..Len(fetch) :
                         fetch[n].id = u.announcement_id =>
                            /\ fetch[n].message = u.updates.message
                            /\ fetch[n].created_at = store[k].created_at
                   /\ Cardinality(Positions(fetch,
                          LAMBDA rec : rec.id = u.announcement_id)) = 1
             /\ (ReturnsUpdate(i) /\ resp'.status = 200) =>
                   /\ store' = store
                   /\ k > 0
                   /\ resp'.body = <<_serialize(store[k])>>
                   /\ resp'.body[1].id = u.announcement_id]_vars

\* an update went through with a second record stored, whose message differs
C4_Witness ==
    /\ resp.op = "update" /\ resp.status = 200
    /\ Len(store) = 2
    /\ \E i \in 1..Len(store) :
          /\ store[i]._id # resp.body[1].id
          /\ store[i].message # resp.body[1].message

\* C8: with a known teacher, deleting an id that is not stored yields NotFound
\* and leaves the collection as it was, whatever came before.
C8_DeleteMissIsNotFound ==
    \A id \in AnnouncementIds :
        IndexOf(store, id) = 0 =>
            delete_announcement(store, id, "teacher1") = Result(store, NotFound("delete"))

\* a delete answered NotFound while an id that was handed out and inserted
\* (no create is in flight) is no longer stored
C8_Witness ==
    /\ resp = NotFound("delete")
    /\ creating = <<>>
    /\ \E id \in 1..(nextId - 1) : IndexOf(store, id) = 0

\* C9: right after a successful create, list-all with valid credentials holds
\* exactly one record with the created id, with the message, start_date and
\* expiration_date the create returned (start_date null when the payload had
\* none), whether or not the record is active.
C9_CreateThenListAll ==
    (req.op = "create" /\ resp.status = 200) =>
        LET all == get_all_announcements(store, "teacher1").resp
        IN  /\ Len(resp.body) = 1
            /\ all.status = 200
            /\ Len(all.body) = Len(req.before) + 1
            /\ Cardinality(Positions(all.body,
                                     LAMBDA rec : rec.id = resp.body[1].id)) = 1
            /\ \A k \in 1..Len(all.body) :
                  all.body[k].id = resp.body[1].id =>
                    /\ all.body[k].message = resp.body[1].message
                    /\ all.body[k].start_date = resp.body[1].start_date
                    /\ all.body[k].expiration_date = resp.body[1].expiration_date
            /\ resp.body[1].message = strip(req.payload.message)
            /\ req.payload.start_date = None => resp.body[1].start_date = None

\* a create went through for a record that is already expired, next to
\* another stored record, with no start_date
C9_Witness ==
    /\ req.op = "create"
    /\ resp.op = "create" /\ resp.status = 200
    /\ Len(store) = 2
    /\ resp.body[1].start_date = None
    /\ DateInstant(resp.body[1].expiration_date) < clock

-----------------------------------------------------------------------------
\* the call made was a create, or an update of an id that was stored, by a
\* teacher of the credential store
KnownTeacherUpsert ==
    /\ req.teacher_username \in teachers_collection
    /\ \/ req.op = "create"
       \/ req.op = "update" /\ IndexOf(req.before, req.announcement_id) > 0

\* C5: with a known teacher, every create, and every update of an existing
\* id, whose payload has both dates parseable and start_date >= expiration_date
\* as instants fails with InvalidRange (400).
C5_BadRangeIsInvalidRange ==
    (/\ KnownTeacherUpsert
     /\ Parseable(req.payload.start_date)
     /\ Parseable(req.payload.expiration_date)
     /\ DateInstant(req.payload.start_date) >= DateInstant(req.payload.expiration_date))
    => resp = InvalidRange(req.op)

\* C6: with a known teacher and valid dates, every create, and every update
\* of an existing id, whose message is empty or only whitespace fails with
\* EmptyMessage (400).
C6_BlankMessageIsEmptyMessage ==
    (/\ KnownTeacherUpsert
     /\ Blank(req.payload.message)
     /\ Parseable(req.payload.expiration_date)
     /\ \/ req.payload.start_date = None
        \/ /\ Parseable(req.payload.start_date)
           /\ DateInstant(req.payload.start_date)
                < DateInstant(req.payload.expiration_date))
    => resp = EmptyMessage(req.op)

\* C7: list-all, create, update and delete called with a teacher_username that
\* is not in the credential store fail with Unauthorized (401) whatever the
\* payload and the id, return no data and leave the collection as it was.
C7_UnknownTeacherIsUnauthorized ==
    (/\ req.op \in {"list_all", "create", "update", "delete"}
     /\ req.teacher_username \notin teachers_collection)
    => /\ resp = Unauthorized(req.op)
       /\ store = req.before

\* C10: under every interleaving of a valid update and a delete of the same
\* existing id, the update ends with the updated record (200) or with NotFound
\* (404), never with another failure, and never puts a deleted record back.
C10_UpdateEndsWithRecordOrNotFound ==
    [][/\ (/\ Idle
           /\ resp'.op = "update"
           /\ resp'.status \notin {400, 401, 422})
             => resp'.status \in {200, 404}
       /\ \A i \in 1..Len(updating) :
             (WritesUpdate(i) /\ IndexOf(store, updating[i].announcement_id) = 0)
                => store' = store]_vars

====
